---- MODULE Spec2Model ----
(***************************************************************************)
(* Model of fastchat/serve/cli.py: the console ChatIO classes              *)
(* (SimpleChatIO, RichChatIO, FileInputChatIO) and the part of main() that *)
(* drives them.                                                            *)
(*                                                                         *)
(* A Python str is modelled as a sequence of one-character strings, a      *)
(* Python list of str as a sequence of such sequences.  A local variable   *)
(* that may be unbound, and a value that may be absent, is modelled as a   *)
(* sequence of zero or one element (None / Some(v)).                       *)
(***************************************************************************)
EXTENDS Integers, Sequences, FiniteSets, TLC

\* ------------------------------------------------------------------ bounds

\* Longest text the generation engine produces in one stream.
MaxLen == 5
\* Most characters by which one snapshot extends the previous one.
MaxStep == 3
\* Most snapshots the engine yields in one stream.
MaxSnaps == 3

\* ------------------------------------------------------- strings and lists

SP == " "
NL == "\n"

\* The characters the engine's text is made of: two letters, the space and
\* the newline.
Alphabet == {"a", "b", SP, NL}

\* The characters str.strip() removes (those of them in the alphabet).
Whitespace == {SP, NL}

None == <<>>
Some(v) == <<v>>

\* Strings over Alphabet of length at most n.
StringsUpTo(n) == UNION {[1..k -> Alphabet] : k \in 0..n}

\* Python seq[lo:hi] for 0 <= lo, hi.
Slice(s, lo, hi) ==
    LET h == IF hi > Len(s) THEN Len(s) ELSE hi
    IN  IF lo >= h THEN <<>> ELSE SubSeq(s, lo + 1, h)

\* Python seq[lo:].
SliceFrom(s, lo) == Slice(s, lo, Len(s))

\* str.lstrip(): drops the leading whitespace characters.
RECURSIVE LStrip(_)
LStrip(s) ==
    IF s # <<>> /\ Head(s) \in Whitespace THEN LStrip(Tail(s)) ELSE s

\* str.rstrip(): drops the trailing whitespace characters.
RECURSIVE RStrip(_)
RStrip(s) ==
    IF s # <<>> /\ s[Len(s)] \in Whitespace
    THEN RStrip(SubSeq(s, 1, Len(s) - 1))
    ELSE s

\* str.strip().
Strip(s) == RStrip(LStrip(s))

\* str.split(sep) for a one-character sep: cuts at EVERY occurrence of sep,
\* so two adjacent separators give an empty item and "" gives [""].
RECURSIVE SplitOn(_, _, _)
SplitOn(s, sep, cur) ==
    IF s = <<>> THEN <<cur>>
    ELSE IF Head(s) = sep THEN <<cur>> \o SplitOn(Tail(s), sep, <<>>)
    ELSE SplitOn(Tail(s), sep, Append(cur, Head(s)))

\* Mutant of SplitSpace: any whitespace character separates two items.
RECURSIVE SplitWhitespace(_, _)
SplitWhitespace(s, cur) ==
    IF s = <<>> THEN <<cur>>
    ELSE IF Head(s) \in Whitespace
         THEN <<cur>> \o SplitWhitespace(Tail(s), <<>>)
         ELSE SplitWhitespace(Tail(s), Append(cur, Head(s)))

SplitAnyWhitespace(s) == SplitWhitespace(s, <<>>)

\* text.split(" ")
SplitSpace(s) == SplitOn(s, SP, <<>>)

\* sep.join(items) for a one-character sep.
RECURSIVE JoinWith(_, _)
JoinWith(items, sep) ==
    IF items = <<>> THEN <<>>
    ELSE IF Len(items) = 1 THEN items[1]
    ELSE items[1] \o <<sep>> \o JoinWith(Tail(items), sep)

\* " ".join(items)
JoinSpace(items) == JoinWith(items, SP)

\* Mutant of Write: the end= string is not written.
WriteNoEnd(out, t, end) == out \o t

\* print(text, end=end, flush=True) on the sink `out`.
Write(out, text, end) == out \o text \o end

\* ------------------------------------------------ plain stream_output state

VARIABLES
    chatio,       \* the class of the ChatIO object main() built
    gen_text,     \* the generation engine's accumulated text
    nsnaps,       \* snapshots the engine has yielded in this stream
    outputs,      \* loop variable `outputs`: None or Some([text |-> ...])
    output_text,  \* local `output_text`: None (unbound) or Some(token list)
    pre,          \* local `pre`: words already printed
    now,          \* local `now`
    stdout,       \* the characters written to the output sink, in order
    ret,          \* None, or Some(value returned by stream_output)
    exc,          \* None, or Some([type, at]): the exception that left the
                  \* call and the control point its traceback names
    pc,           \* the statement control is at
    \* --- the ChatIO object, its transport and the prompt_for_input locals
    multiline,    \* SimpleChatIO._multiline
    peer_frames,  \* the text frames the websocket peer has sent, in order
    ws_recv,      \* how many of them websocket.recv() has delivered
    ws_out,       \* the frames sent to the peer, in order
    stdin,        \* the lines still to come on the local console
    input_file,   \* the content of the file at FileInputChatIO._input_file
    prompt_data,  \* local `prompt_data` of prompt_for_input
    line,         \* local `line` of prompt_for_input: None or Some(value)
    calls,        \* the ChatIO calls made so far, in order
    reads,        \* per FileInputChatIO.prompt_for_input call: the file's
                  \* content at the call and the value returned
    streamed,     \* per whole stream_output call: the stream passed, what
                  \* the call wrote to the sink and what it returned
    ws_open,      \* the websocket main() connected is open
    \* --- RichChatIO.stream_output
    text,         \* local `text`: None (unbound) or Some(raw text)
    live          \* the Live region: whether it is started, the markdown
                  \* source of the renderable it shows, and the number of
                  \* live.update calls made

\* The locals of one plain stream_output call and the engine feeding it.
streamVars == <<gen_text, nsnaps, outputs, output_text, pre, now>>

\* The ChatIO object's surroundings and the prompt_for_input locals.
chatVars == <<multiline, peer_frames, ws_recv, ws_out, stdin, input_file,
              prompt_data, line, calls, reads, streamed, ws_open>>

\* The state of a RichChatIO.stream_output call.
richVars == <<text, live>>

vars == <<chatio, gen_text, nsnaps, outputs, output_text, pre, now, stdout,
          ret, exc, pc, chatVars, richVars>>

\* The two classes whose stream_output is the plain renderer.
PlainClasses == {"SimpleChatIO", "FileInputChatIO"}

\* Control points inside a stream_output call (an interrupt can fall at any).
InCall == {"pre0", "for", "split", "if", "commit", "close", "return"}

\* What a snapshot may add to the engine's text: up to MaxStep characters,
\* within MaxLen in all.
Extensions(sofar) ==
    {e \in StringsUpTo(MaxStep) : Len(sofar) + Len(e) <= MaxLen}

\* Mutant of pre0: the count is not reset, it is what the previous call
\* left.
pre_kept == pre

\* pre = 0                                              (lines 75 / 172)
pre0 == 0

\* Mutant of Tokenize: the strip() forgotten.
TokenizeNoStrip(s) == SplitSpace(s)

\* output_text.strip().split(" ")                       (lines 78 / 175)
Tokenize(s) == SplitSpace(Strip(s))

\* Mutant of Chunk: the slice runs through the last token, output_text[pre:].
ChunkThroughLast(tokens, lo, hi) == JoinSpace(Slice(tokens, lo, hi + 1))

\* Mutant of Chunk: the slice restarts at the first token, output_text[:now].
ChunkFromStart(tokens, lo, hi) == JoinSpace(Slice(tokens, 0, hi))

\* " ".join(output_text[pre:now])                       (lines 81 / 178)
Chunk(tokens, lo, hi) == JoinSpace(Slice(tokens, lo, hi))

\* Mutant of ShouldEmit: `>=` for `>`.
ShouldEmitAlso(n, p) == n >= p

\* if now > pre:                                        (lines 80 / 177)
ShouldEmit(n, p) == n > p

\* Mutant of ClosingChunk: off by one, output_text[pre + 1:].
ClosingChunkSkipsOne(tokens, lo) == JoinSpace(SliceFrom(tokens, lo + 1))

\* " ".join(output_text[pre:])                          (lines 83 / 180)
ClosingChunk(tokens, lo) == JoinSpace(SliceFrom(tokens, lo))

\* " ".join(output_text)                                (lines 84 / 181)
FinalText(tokens) == JoinSpace(tokens)

\* FileInputChatIO.stream_output is a second copy of the same statements.

\* Mutant of FileTokenize: the strip() forgotten in this copy only.
FileTokenizeNoStrip(s) == SplitSpace(s)

\* output_text = outputs["text"].strip().split(" ")           (line 175)
FileTokenize(s) == SplitSpace(Strip(s))

\* if now > pre:                                               (line 177)
FileShouldEmit(n, p) == n > p

\* " ".join(output_text[pre:now])                              (line 178)
FileChunk(tokens, lo, hi) == JoinSpace(Slice(tokens, lo, hi))

\* " ".join(output_text[pre:])                                 (line 180)
FileClosingChunk(tokens, lo) == JoinSpace(SliceFrom(tokens, lo))

\* " ".join(output_text)                                       (line 181)
FileFinalText(tokens) == JoinSpace(tokens)

\* chatio.stream_output runs the copy of the class c of the object.
TokenizeOf(c, s) ==
    IF c = "FileInputChatIO" THEN FileTokenize(s) ELSE Tokenize(s)

ShouldEmitOf(c, n, p) ==
    IF c = "FileInputChatIO" THEN FileShouldEmit(n, p) ELSE ShouldEmit(n, p)

ChunkOf(c, tokens, lo, hi) ==
    IF c = "FileInputChatIO" THEN FileChunk(tokens, lo, hi)
    ELSE Chunk(tokens, lo, hi)

ClosingChunkOf(c, tokens, lo) ==
    IF c = "FileInputChatIO" THEN FileClosingChunk(tokens, lo)
    ELSE ClosingChunk(tokens, lo)

FinalTextOf(c, tokens) ==
    IF c = "FileInputChatIO" THEN FileFinalText(tokens) ELSE FinalText(tokens)

Init ==
    /\ chatio \in PlainClasses
    /\ gen_text = <<>>
    /\ nsnaps = 0
    /\ outputs = None
    /\ output_text = None
    /\ pre = 0
    /\ now = 0
    /\ stdout = <<>>
    /\ ret = None
    /\ exc = None
    /\ pc = "pre0"
    /\ multiline = FALSE
    /\ peer_frames = <<>>
    /\ ws_recv = 0
    /\ ws_out = <<>>
    /\ stdin = <<>>
    /\ input_file = <<>>
    /\ prompt_data = <<>>
    /\ line = None
    /\ calls = <<>>
    /\ reads = <<>>
    /\ streamed = <<>>
    /\ ws_open = (chatio = "SimpleChatIO")
    /\ text = None
    /\ live = [started |-> FALSE, markdown |-> None, updates |-> 0]

\* pre = 0
stream_output_enter ==
    /\ chatio \in PlainClasses
    /\ pc = "pre0"
    /\ pre' = pre0
    /\ pc' = "for"
    /\ UNCHANGED <<chatVars, richVars, chatio, gen_text, nsnaps, outputs,
                   output_text, now, stdout, ret, exc>>

\* for outputs in output_stream: the engine yields its next snapshot, the
\* accumulated text extended.
stream_output_next ==
    /\ chatio \in PlainClasses
    /\ pc = "for"
    /\ nsnaps < MaxSnaps
    /\ \E e \in Extensions(gen_text) :
          /\ gen_text' = gen_text \o e
          /\ outputs' = Some([text |-> gen_text \o e])
    /\ nsnaps' = nsnaps + 1
    /\ pc' = "split"
    /\ UNCHANGED <<chatVars, richVars, chatio, output_text, pre, now, stdout,
                   ret, exc>>

\* for outputs in output_stream: the stream is exhausted, the loop ends.
stream_output_stop ==
    /\ chatio \in PlainClasses
    /\ pc = "for"
    /\ pc' = "close"
    /\ UNCHANGED <<chatVars, richVars, chatio, gen_text, nsnaps, outputs,
                   output_text, pre, now, stdout, ret, exc>>

\* output_text = outputs["text"].strip().split(" "); now = len(output_text) - 1
stream_output_split ==
    /\ chatio \in PlainClasses
    /\ pc = "split"
    /\ output_text' = Some(TokenizeOf(chatio, outputs[1].text))
    /\ now' = Len(TokenizeOf(chatio, outputs[1].text)) - 1
    /\ pc' = "if"
    /\ UNCHANGED <<chatVars, richVars, chatio, gen_text, nsnaps, outputs, pre,
                   stdout, ret, exc>>

\* if now > pre: print(" ".join(output_text[pre:now]), end=" ", flush=True)
stream_output_print ==
    /\ chatio \in PlainClasses
    /\ pc = "if"
    /\ IF ShouldEmitOf(chatio, now, pre)
       THEN /\ stdout' = Write(stdout,
                               ChunkOf(chatio, output_text[1], pre, now),
                               <<SP>>)
            /\ pc' = "commit"
       ELSE /\ stdout' = stdout
            /\ pc' = "for"
    /\ UNCHANGED <<chatVars, richVars, chatio, gen_text, nsnaps, outputs,
                   output_text, pre, now, ret, exc>>

\* pre = now
stream_output_commit ==
    /\ chatio \in PlainClasses
    /\ pc = "commit"
    /\ pre' = now
    /\ pc' = "for"
    /\ UNCHANGED <<chatVars, richVars, chatio, gen_text, nsnaps, outputs,
                   output_text, now, stdout, ret, exc>>

\* print(" ".join(output_text[pre:]), flush=True); with no snapshot the
\* local output_text is unbound and reading it raises UnboundLocalError.
stream_output_close ==
    /\ chatio \in PlainClasses
    /\ pc = "close"
    /\ IF output_text = None
       THEN /\ exc' = Some([type |-> "UnboundLocalError", at |-> pc])
            /\ pc' = "raised"
            /\ stdout' = stdout
       ELSE /\ stdout' = Write(stdout,
                               ClosingChunkOf(chatio, output_text[1], pre),
                               <<NL>>)
            /\ pc' = "return"
            /\ exc' = exc
    /\ UNCHANGED <<chatVars, richVars, chatio, gen_text, nsnaps, outputs,
                   output_text, pre, now, ret>>

\* return " ".join(output_text)
stream_output_return ==
    /\ chatio \in PlainClasses
    /\ pc = "return"
    /\ ret' = Some(FinalTextOf(chatio, output_text[1]))
    /\ pc' = "done"
    /\ UNCHANGED <<chatVars, richVars, chatio, gen_text, nsnaps, outputs,
                   output_text, pre, now, stdout, exc>>

\* The operator presses Ctrl-C: KeyboardInterrupt is raised at the statement
\* boundary control is at and unwinds stream_output and chat_loop.
KeyboardInterrupt ==
    /\ chatio \in PlainClasses
    /\ pc \in InCall
    /\ exc' = Some([type |-> "KeyboardInterrupt", at |-> pc])
    /\ pc' = "interrupted"
    /\ UNCHANGED <<chatVars, richVars, chatio, gen_text, nsnaps, outputs,
                   output_text, pre, now, stdout, ret>>

\* main(): except KeyboardInterrupt: print("exit...")
main_except ==
    /\ pc = "interrupted"
    /\ stdout' = Write(stdout, <<"e", "x", "i", "t", ".", ".", ".">>, <<NL>>)
    /\ pc' = "exit"
    /\ UNCHANGED <<chatVars, richVars, chatio, gen_text, nsnaps, outputs,
                   output_text, pre, now, ret, exc>>

Next ==
    \/ stream_output_enter
    \/ stream_output_next
    \/ stream_output_stop
    \/ stream_output_split
    \/ stream_output_print
    \/ stream_output_commit
    \/ stream_output_close
    \/ stream_output_return
    \/ KeyboardInterrupt
    \/ main_except

Spec == Init /\ [][Next]_vars

\* ------------------------------------------- plain stream_output: claims

\* Reference tokenization, Python's text.split(): the maximal runs of
\* non-whitespace characters, in order.
RECURSIVE WordsFrom(_, _)
WordsFrom(s, cur) ==
    IF s = <<>> THEN (IF cur = <<>> THEN <<>> ELSE <<cur>>)
    ELSE IF Head(s) \in Whitespace
         THEN (IF cur = <<>> THEN <<>> ELSE <<cur>>) \o WordsFrom(Tail(s), <<>>)
         ELSE WordsFrom(Tail(s), Append(cur, Head(s)))

Words(s) == WordsFrom(s, <<>>)

IsPrefix(p, s) == Len(p) <= Len(s) /\ SubSeq(s, 1, Len(p)) = p

\* The text of the last snapshot pulled from the stream.
LastText == outputs[1].text

\* The stream is still open: the loop has not ended.
StreamOpen == pc \in {"for", "split", "if", "commit"}

\* The sink after the first k tokens, each followed by its end=" ".
Emitted(tokens, k) ==
    IF k = 0 THEN <<>> ELSE JoinSpace(Slice(tokens, 0, k)) \o <<SP>>

\* C1 (diff completeness): once the closing chunk is written, the words on
\* the sink are exactly the words of the last snapshot's text, in order: none
\* missing, none twice.
C1_DiffCompleteness ==
    (pc \in {"return", "done"}) => Words(stdout) = Words(LastText)

\* A three-word answer delivered over three snapshots, two words of it in
\* chunks written before the close.
C1_Witness ==
    /\ pc = "done"
    /\ nsnaps = 3
    /\ pre = 2
    /\ Len(Words(LastText)) = 3

\* C2 (no premature emission): while the stream is open, the words on the
\* sink are the leading words of the latest snapshot (hence, the property
\* holding in every state, of every later one), unchanged and in place, and
\* the snapshot's last word is not among them.
C2_NoPrematureEmission ==
    (StreamOpen /\ outputs # None) =>
        /\ IsPrefix(Words(stdout), Words(LastText))
        /\ Words(LastText) # <<>> => Len(Words(stdout)) < Len(Words(LastText))

\* A new snapshot has just been pulled while a chunk of an earlier one is on
\* the sink.
C2_Witness ==
    /\ pc = "split"
    /\ Words(stdout) # <<>>
    /\ output_text # None
    /\ Tokenize(LastText) # output_text[1]

\* C3 as stated: the returned string is the last snapshot's text, leading and
\* trailing whitespace included.
C3_ReturnsRawText ==
    (pc = "done") => ret = Some(LastText)

\* C3, amended: the returned string is the last snapshot's text with its
\* leading and trailing whitespace removed (the inner whitespace kept).
C3_ReturnsStrippedText ==
    (pc = "done") => ret = Some(Strip(LastText))

\* A returned answer of two words whose raw text carried outer whitespace.
C3_Witness ==
    /\ pc = "done"
    /\ Len(Words(LastText)) = 2
    /\ Strip(LastText) # LastText

\* C4 as stated: a stream of zero snapshots ends the call normally, with
\* nothing written and the empty string returned.
C4_EmptyStreamIsEmptyAnswer ==
    (nsnaps = 0 /\ pc \in {"done", "raised"}) =>
        /\ exc = None
        /\ ret = Some(<<>>)
        /\ Words(stdout) = <<>>

\* C10 as stated, for an interrupt that falls while the stream is still
\* open: the sink holds exactly the first committed_word_count (pre) tokens
\* of the latest processed snapshot, and no token beyond that count.
C10_SinkIsCommittedTokens ==
    (pc = "interrupted" /\ exc[1].at \in {"for", "split", "if", "commit"}) =>
        stdout = (IF output_text = None THEN <<>>
                  ELSE Emitted(output_text[1], pre))

\* C10, amended: at an interrupt the sink holds whole chunks only.  It is the
\* first pre tokens of the latest processed snapshot; or the first now = N-1
\* tokens when the interrupt falls between a chunk's write and `pre = now`;
\* or all N tokens and the line end when it falls after the closing chunk's
\* write.  In each case every word on it is a complete word of the latest
\* snapshot, in place.
C10_InterruptSafety ==
    (pc = "interrupted") =>
        /\ stdout = (IF output_text = None THEN <<>>
                     ELSE IF exc[1].at = "commit"
                          THEN Emitted(output_text[1], now)
                     ELSE IF exc[1].at = "return"
                          THEN JoinSpace(output_text[1]) \o <<NL>>
                     ELSE Emitted(output_text[1], pre))
        /\ outputs # None => IsPrefix(Words(stdout), Words(LastText))

\* An interrupt between a chunk's write and the update of pre.
C10_Witness ==
    /\ pc = "interrupted"
    /\ exc[1].at = "commit"
    /\ now > pre
    /\ Words(stdout) # <<>>

\* --------------------------------------------------- the ChatIO interface

\* Most ChatIO calls made on one object in one run.
MaxCalls == 3

\* The role labels the chat loop passes.
RoleUser == <<"U">>
RoleModel == <<"M">>

\* Text frames a websocket peer may send: an empty one, a bare one and one
\* carrying outer whitespace.
Frames == {<<>>, <<"x">>, <<SP, "y", SP>>}

\* What the peer sends in a run: no frame, one frame or two.
PeerScripts ==
    {<<>>} \cup {<<f>> : f \in Frames} \cup {<<<<"x">>, g>> : g \in Frames}

\* What the operator types on the local console: lines, then end of file.
ConsoleScripts == {<<>>, <<<<>>>>, <<<<"h", "i">>>>, <<<<"h", "i">>, <<>>>>}

\* Contents of the input file.
FileContents == {<<>>, <<"h", "i">>, <<"h", "i", NL, "y", "o", NL>>}

\* Snapshot streams the chat loop hands to stream_output: none, one or two
\* cumulative snapshots.
ChatStreams ==
    { <<>>,
      <<[text |-> <<"a">>]>>,
      <<[text |-> <<"a", SP>>], [text |-> <<"a", SP, "b", NL>>]>> }

\* " [ctrl-d/z on empty line to end]: "
MultilineHint ==
    <<SP, "[", "c", "t", "r", "l", "-", "d", "/", "z", SP, "o", "n", SP,
      "e", "m", "p", "t", "y", SP, "l", "i", "n", "e", SP, "t", "o", SP,
      "e", "n", "d", "]", ":", SP>>

\* The value of a call to an `async def` method: a coroutine object, here
\* with the argument it was made with.  (A str value has kind "str".)
CoroutineValue(prompt) == [kind |-> "coroutine", s |-> prompt]

\* self.receive_input_from_websocket(prompt) as prompt_for_input calls it:
\* the method is `async def` and the call is not awaited, so it returns a
\* coroutine object and runs none of its body (no send, no recv).
receive_input_from_websocket(prompt) == CoroutineValue(prompt)

\* "\n".join(prompt_data)
JoinLines(items) == JoinWith(items, NL)

\* Mutant of ReadAll: readline() instead of read().
ReadFirstLine(contents) ==
    IF \E i \in 1..Len(contents) : contents[i] = NL
    THEN SubSeq(contents, 1,
                CHOOSE i \in 1..Len(contents) :
                    /\ contents[i] = NL
                    /\ \A j \in 1..(i - 1) : contents[j] # NL)
    ELSE contents

\* with open(self._input_file, 'r') as f: contents = f.read()
\* A fresh file object starts at position 0 and read() runs to the end.
ReadAll(contents) == SubSeq(contents, 1, Len(contents))

\* The plain stream_output loop (lines 76-82 / 173-179) of class c run over
\* a whole stream: the locals after the last snapshot and the sink.
RECURSIVE DifferLoop(_, _, _, _, _)
DifferLoop(c, items, p, toks, out) ==
    IF items = <<>> THEN [pre |-> p, output_text |-> toks, stdout |-> out]
    ELSE LET t == TokenizeOf(c, Head(items).text)
             n == Len(t) - 1
         IN  IF ShouldEmitOf(c, n, p)
             THEN DifferLoop(c, Tail(items), n, Some(t),
                             Write(out, ChunkOf(c, t, p, n), <<SP>>))
             ELSE DifferLoop(c, Tail(items), p, Some(t), out)

\* A whole stream_output call of class c (lines 75-84 / 172-181) on the
\* sink `out`, the count starting at p: the sink and the locals when the call
\* ends, and the value it returns, None when it raises UnboundLocalError at
\* the closing print because no snapshot bound output_text.
StreamOutput(c, items, p, out) ==
    LET r == DifferLoop(c, items, p, None, out)
    IN  IF r.output_text = None
        THEN [pre |-> r.pre, output_text |-> None, stdout |-> out,
              ret |-> None]
        ELSE [pre |-> r.pre, output_text |-> r.output_text,
              stdout |-> Write(r.stdout,
                               ClosingChunkOf(c, r.output_text[1], r.pre),
                               <<NL>>),
              ret |-> Some(FinalTextOf(c, r.output_text[1]))]

InitChat ==
    /\ chatio \in PlainClasses
    /\ multiline \in (IF chatio = "SimpleChatIO" THEN BOOLEAN ELSE {FALSE})
    /\ peer_frames \in (IF chatio = "SimpleChatIO"
                        THEN PeerScripts ELSE {<<>>})
    /\ stdin \in (IF chatio = "SimpleChatIO" /\ ~multiline
                  THEN ConsoleScripts ELSE {<<>>})
    /\ input_file \in (IF chatio = "FileInputChatIO"
                       THEN FileContents ELSE {<<>>})
    /\ ws_recv = 0
    /\ ws_out = <<>>
    /\ prompt_data = <<>>
    /\ line = None
    /\ calls = <<>>
    /\ reads = <<>>
    /\ streamed = <<>>
    /\ ws_open = (chatio = "SimpleChatIO")
    /\ text = None
    /\ live = [started |-> FALSE, markdown |-> None, updates |-> 0]
    /\ gen_text = <<>>
    /\ nsnaps = 0
    /\ outputs = None
    /\ output_text = None
    /\ pre = 0
    /\ now = 0
    /\ stdout = <<>>
    /\ ret = None
    /\ exc = None
    /\ pc = "idle"

\* The object is idle and its caller may make one more call.
CanCall == pc = "idle" /\ Len(calls) < MaxCalls

\* SimpleChatIO.prompt_for_input, single-line: return input(f"{role}: ").
\* input() writes the prompt to the console and reads one console line;
\* at end of file it raises EOFError.
simple_prompt_for_input_single ==
    /\ CanCall
    /\ chatio = "SimpleChatIO"
    /\ ~multiline
    /\ calls' = Append(calls, "prompt_for_input")
    /\ stdout' = Write(stdout, RoleUser \o <<":", SP>>, <<>>)
    /\ IF stdin = <<>>
       THEN /\ exc' = Some([type |-> "EOFError", at |-> "prompt_for_input"])
            /\ pc' = "raised"
            /\ UNCHANGED <<ret, stdin>>
       ELSE /\ ret' = Some(Head(stdin))
            /\ stdin' = Tail(stdin)
            /\ UNCHANGED <<exc, pc>>
    /\ UNCHANGED <<streamVars, richVars, chatio, streamed, ws_open, multiline,
                   peer_frames,
                   ws_recv, ws_out, input_file, prompt_data, line, reads>>

\* SimpleChatIO.prompt_for_input, multi-line, lines 53-55:
\* prompt_data = []; line = self.receive_input_from_websocket(role + hint)
simple_prompt_for_input_multi ==
    /\ CanCall
    /\ chatio = "SimpleChatIO"
    /\ multiline
    /\ calls' = Append(calls, "prompt_for_input")
    /\ prompt_data' = <<>>
    /\ line' = Some(receive_input_from_websocket(RoleUser \o MultilineHint))
    /\ pc' = "while"
    /\ UNCHANGED <<streamVars, richVars, chatio, streamed, ws_open, multiline,
                   peer_frames,
                   ws_recv, ws_out, stdin, input_file, reads, stdout, ret,
                   exc>>

\* One turn of `while True:` (lines 56-61): prompt_data.append(line.strip()),
\* then line = self.receive_input_from_websocket().  A coroutine object has
\* no strip attribute, so the append raises AttributeError.  The second call
\* builds one more coroutine object and cannot raise EOFError, so the
\* `break` of line 61 and the return of line 62 are never reached.
simple_prompt_for_input_loop ==
    /\ pc = "while"
    /\ IF line[1].kind = "coroutine"
       THEN /\ exc' = Some([type |-> "AttributeError",
                            at |-> "prompt_for_input"])
            /\ pc' = "raised"
            /\ UNCHANGED <<prompt_data, line>>
       ELSE /\ prompt_data' = Append(prompt_data, Strip(line[1].s))
            /\ line' = Some(receive_input_from_websocket(<<>>))
            /\ UNCHANGED <<exc, pc>>
    /\ UNCHANGED <<streamVars, richVars, chatio, streamed, ws_open, multiline,
                   peer_frames,
                   ws_recv, ws_out, stdin, input_file, calls, reads, stdout,
                   ret>>

\* SimpleChatIO.prompt_for_output: print(f"{role}: ", end="", flush=True)
simple_prompt_for_output ==
    /\ CanCall
    /\ chatio = "SimpleChatIO"
    /\ calls' = Append(calls, "prompt_for_output")
    /\ stdout' = Write(stdout, RoleModel \o <<":", SP>>, <<>>)
    /\ ret' = None
    /\ UNCHANGED <<streamVars, richVars, chatio, streamed, ws_open, multiline,
                   peer_frames,
                   ws_recv, ws_out, stdin, input_file, prompt_data, line,
                   reads, exc, pc>>

\* FileInputChatIO.prompt_for_input: read the whole file, echo it, return it.
file_prompt_for_input ==
    /\ CanCall
    /\ chatio = "FileInputChatIO"
    /\ calls' = Append(calls, "prompt_for_input")
    /\ LET contents == ReadAll(input_file)
       IN  /\ stdout' = Write(stdout,
                              <<"[", "!", "O", "P", ":">> \o RoleUser
                                  \o <<"]", ":", SP>> \o contents,
                              <<NL>>)
           /\ ret' = Some(contents)
           /\ reads' = Append(reads, [file |-> input_file, value |-> contents])
    /\ UNCHANGED <<streamVars, richVars, chatio, streamed, ws_open, multiline,
                   peer_frames,
                   ws_recv, ws_out, stdin, input_file, prompt_data, line, exc,
                   pc>>

\* FileInputChatIO.prompt_for_output: print(f"[!OP:{role}]: ", end="")
file_prompt_for_output ==
    /\ CanCall
    /\ chatio = "FileInputChatIO"
    /\ calls' = Append(calls, "prompt_for_output")
    /\ stdout' = Write(stdout,
                       <<"[", "!", "O", "P", ":">> \o RoleModel
                           \o <<"]", ":", SP>>,
                       <<>>)
    /\ ret' = None
    /\ UNCHANGED <<streamVars, richVars, chatio, streamed, ws_open, multiline,
                   peer_frames,
                   ws_recv, ws_out, stdin, input_file, prompt_data, line,
                   reads, exc, pc>>

\* A whole plain stream_output call, of the class of the object, on a stream
\* the caller passes.
chat_stream_output ==
    /\ CanCall
    /\ calls' = Append(calls, "stream_output")
    /\ \E stream \in ChatStreams :
          LET r == StreamOutput(chatio, stream, pre0, stdout)
          IN  /\ pre' = r.pre
              /\ output_text' = r.output_text
              /\ stdout' = r.stdout
              /\ streamed' = Append(streamed,
                                    [stream |-> stream,
                                     out |-> SliceFrom(r.stdout, Len(stdout)),
                                     ret |-> r.ret])
              /\ IF r.ret = None
                 THEN /\ exc' = Some([type |-> "UnboundLocalError",
                                      at |-> "stream_output"])
                      /\ pc' = "raised"
                      /\ ret' = ret
                 ELSE /\ ret' = r.ret
                      /\ UNCHANGED <<exc, pc>>
    /\ UNCHANGED <<richVars, chatio, gen_text, nsnaps, outputs, now,
                   ws_open, multiline, peer_frames, ws_recv, ws_out, stdin,
                   input_file, prompt_data, line, reads>>

\* The operator presses Ctrl-C while SimpleChatIO.prompt_for_input is in
\* progress: blocked in input() after its prompt is written (line 51), or at
\* a statement of the multi-line loop (lines 56-61).  KeyboardInterrupt
\* unwinds the call and chat_loop.
simple_prompt_for_input_interrupt ==
    /\ chatio = "SimpleChatIO"
    /\ \/ /\ CanCall
          /\ ~multiline
          /\ calls' = Append(calls, "prompt_for_input")
          /\ stdout' = Write(stdout, RoleUser \o <<":", SP>>, <<>>)
       \/ /\ pc = "while"
          /\ UNCHANGED <<calls, stdout>>
    /\ exc' = Some([type |-> "KeyboardInterrupt", at |-> "prompt_for_input"])
    /\ pc' = "interrupted"
    /\ UNCHANGED <<streamVars, richVars, chatio, streamed, ws_open, multiline,
                   peer_frames, ws_recv, ws_out, stdin, input_file,
                   prompt_data, line, reads, ret>>

\* Somebody rewrites the input file between two calls.
file_rewritten ==
    /\ pc = "idle"
    /\ chatio = "FileInputChatIO"
    /\ \E c \in FileContents \ {input_file} : input_file' = c
    /\ UNCHANGED <<streamVars, richVars, chatio, streamed, ws_open, multiline,
                   peer_frames,
                   ws_recv, ws_out, stdin, prompt_data, line, calls, reads,
                   stdout, ret, exc, pc>>

NextChat ==
    \/ simple_prompt_for_input_single
    \/ simple_prompt_for_input_multi
    \/ simple_prompt_for_input_loop
    \/ simple_prompt_for_output
    \/ file_prompt_for_input
    \/ file_prompt_for_output
    \/ chat_stream_output
    \/ file_rewritten
    \/ simple_prompt_for_input_interrupt
    \/ main_except

SpecChat == InitChat /\ [][NextChat]_vars

\* ------------------------------------------------ ChatIO interface: claims

\* The first ChatIO call of the run was prompt_for_input and it is over,
\* without an interrupt by the operator.
FirstPromptOver ==
    calls = <<"prompt_for_input">> /\ pc \notin {"while", "interrupted", "exit"}

\* The frames trimmed, in arrival order.
TrimmedFrames == [i \in 1..Len(peer_frames) |-> Strip(peer_frames[i])]

\* C5 as stated, for a peer that sends two frames: `line` only ever holds
\* the text of a received frame, never an unresolved receive, and
\* prompt_for_input returns the trimmed frames the peer sent before its
\* end-of-input sentinel, joined by newlines.
C5_BridgedRoundTrip ==
    (chatio = "SimpleChatIO" /\ multiline /\ Len(peer_frames) = 2) =>
        /\ line # None => line[1].kind = "str"
        /\ FirstPromptOver =>
              /\ exc = None
              /\ ret = Some(JoinLines(TrimmedFrames))

\* C6 as stated, its finite part: a multi-line prompt_for_input call that is
\* over has returned the accumulated buffer; it has not failed.
C6_MultilinePromptReturns ==
    (chatio = "SimpleChatIO" /\ multiline /\ FirstPromptOver) =>
        /\ pc = "idle"
        /\ ret = Some(JoinLines(prompt_data))

\* C7 as stated: a single-line prompt_for_input that returned while the peer
\* had a frame to deliver sent the prompt label as one outbound frame, took
\* exactly one inbound frame and returned that frame's text.
C7_SingleLineUsesTransport ==
    (/\ chatio = "SimpleChatIO"
     /\ ~multiline
     /\ FirstPromptOver
     /\ pc = "idle"
     /\ peer_frames # <<>>) =>
        /\ ws_out = <<RoleUser \o <<":", SP>>>>
        /\ ws_recv = 1
        /\ ret = Some(peer_frames[1])

\* C8 (Fixed-File stability): every FileInputChatIO.prompt_for_input call
\* returns the whole content the file has at the call, so any two calls that
\* find the same content return the same string, whatever calls were made in
\* between.
C8_FixedFileStability ==
    /\ \A i \in 1..Len(reads) : reads[i].value = reads[i].file
    /\ \A i, j \in 1..Len(reads) :
          reads[i].file = reads[j].file => reads[i].value = reads[j].value

\* Two reads of the same two-line file with a stream_output call between.
C8_Witness ==
    /\ calls = <<"prompt_for_input", "stream_output", "prompt_for_input">>
    /\ pc = "idle"
    /\ Len(reads) = 2
    /\ reads[1].file = <<"h", "i", NL, "y", "o", NL>>
    /\ reads[2].file = reads[1].file

\* ------------------------------------------------ RichChatIO.stream_output

\* Longest raw text the engine produces for the markdown renderer.
MaxRichLen == 9

\* The backtick character (a TLA+ string cannot hold one).
BACKTICK == "BT"

\* The fence marker: three backticks.
FENCE == <<BACKTICK, BACKTICK, BACKTICK>>

\* What the engine's text grows by, piecewise: a letter, a line end or a
\* fence marker.
RichPieces == {<<"a">>, <<NL>>, FENCE}

\* What one snapshot may add: up to two pieces.
RichExtensions(sofar) ==
    {e \in {<<>>} \cup RichPieces \cup {p \o q : p, q \in RichPieces} :
        Len(sofar) + Len(e) <= MaxRichLen}

\* A falsy `outputs` (Python {}).
EmptyDict == <<>>

\* Mutant of IsFalsy: a snapshot whose text is empty counts as falsy too.
IsFalsyOrEmptyText(item) == DOMAIN item = {} \/ item.text = <<>>

\* if not outputs:                                              (line 128)
IsFalsy(item) == DOMAIN item = {}

\* str.splitlines(): the lines without their line ends; a final line end
\* opens no further line, and "" has no line.
RECURSIVE SplitLinesFrom(_, _)
SplitLinesFrom(s, cur) ==
    IF s = <<>> THEN (IF cur = <<>> THEN <<>> ELSE <<cur>>)
    ELSE IF Head(s) = NL THEN <<cur>> \o SplitLinesFrom(Tail(s), <<>>)
    ELSE SplitLinesFrom(Tail(s), Append(cur, Head(s)))

SplitLines(s) == SplitLinesFrom(s, <<>>)

\* Mutant of StartsWithFence: the marker anywhere in the line.
ContainsFence(ln) ==
    \E k \in 1..(Len(ln) - 2) : SubSeq(ln, k, k + 2) = FENCE

\* line.startswith(FENCE)
StartsWithFence(ln) == Len(ln) >= 3 /\ SubSeq(ln, 1, 3) = FENCE

\* Mutant of LineSuffix: the fence test forgotten, every line suffixed.
LineSuffixAlways(ln) == <<SP, SP, NL>>

\* What lines 145-150 append after a line: "\n" after a line that starts with
\* the fence marker, "  \n" after any other.
LineSuffix(ln) == IF StartsWithFence(ln) THEN <<NL>> ELSE <<SP, SP, NL>>

\* "".join(lines) of lines 142-151.
RECURSIVE JoinSuffixed(_)
JoinSuffixed(lns) ==
    IF lns = <<>> THEN <<>>
    ELSE Head(lns) \o LineSuffix(Head(lns)) \o JoinSuffixed(Tail(lns))

\* The markdown source built from a raw text.
MarkdownSource(raw) == JoinSuffixed(SplitLines(raw))

\* Mutant of lines0: the list is not reset, it still holds what the previous
\* snapshot put in it.
lines_kept == IF live.markdown = None THEN <<>> ELSE live.markdown[1]

\* lines = []                                                   (line 142)
lines0 == <<>>

\* Lines 143-151: the lines of raw, each with its suffix, appended to the
\* list `lines` (given joined), and the whole joined.
MarkdownOnto(lines, raw) == lines \o JoinSuffixed(SplitLines(raw))

\* Mutant of RawText: the text stripped, as the plain renderer does.
RawTextStripped(item) == Strip(item.text)

\* text = outputs["text"]                                       (line 130)
RawText(item) == item.text

InitRich ==
    /\ chatio = "RichChatIO"
    /\ gen_text = <<>>
    /\ nsnaps = 0
    /\ outputs = None
    /\ output_text = None
    /\ pre = 0
    /\ now = 0
    /\ stdout = <<>>
    /\ ret = None
    /\ exc = None
    /\ pc = "with"
    /\ multiline = FALSE
    /\ peer_frames = <<>>
    /\ ws_recv = 0
    /\ ws_out = <<>>
    /\ stdin = <<>>
    /\ input_file = <<>>
    /\ prompt_data = <<>>
    /\ line = None
    /\ calls = <<>>
    /\ reads = <<>>
    /\ streamed = <<>>
    /\ ws_open = (chatio = "SimpleChatIO")
    /\ text = None
    /\ live = [started |-> FALSE, markdown |-> None, updates |-> 0]

\* with Live(console=self._console, refresh_per_second=4) as live:
rich_stream_output_enter ==
    /\ chatio = "RichChatIO"
    /\ pc = "with"
    /\ live' = [started |-> TRUE, markdown |-> None, updates |-> 0]
    /\ pc' = "for"
    /\ UNCHANGED <<chatVars, chatio, gen_text, nsnaps, outputs, output_text,
                   pre, now, stdout, ret, exc, text>>

\* for outputs in output_stream: the engine yields its next snapshot.
rich_stream_output_next ==
    /\ chatio = "RichChatIO"
    /\ pc = "for"
    /\ nsnaps < MaxSnaps
    /\ \E e \in RichExtensions(gen_text) :
          /\ gen_text' = gen_text \o e
          /\ outputs' = Some([text |-> gen_text \o e])
    /\ nsnaps' = nsnaps + 1
    /\ pc' = "body"
    /\ UNCHANGED <<chatVars, richVars, chatio, output_text, pre, now, stdout,
                   ret, exc>>

\* for outputs in output_stream: the stream yields a falsy item.
rich_stream_output_next_falsy ==
    /\ chatio = "RichChatIO"
    /\ pc = "for"
    /\ nsnaps < MaxSnaps
    /\ outputs' = Some(EmptyDict)
    /\ nsnaps' = nsnaps + 1
    /\ pc' = "body"
    /\ UNCHANGED <<chatVars, richVars, chatio, gen_text, output_text, pre,
                   now, stdout, ret, exc>>

\* The loop body, lines 128-153: a falsy item is skipped; otherwise text is
\* bound, the markdown source rebuilt from it and the Live region updated.
rich_stream_output_body ==
    /\ chatio = "RichChatIO"
    /\ pc = "body"
    /\ IF IsFalsy(outputs[1])
       THEN UNCHANGED <<text, live>>
       ELSE /\ text' = Some(RawText(outputs[1]))
            /\ live' = [live EXCEPT
                           !.markdown =
                               Some(MarkdownOnto(lines0, RawText(outputs[1]))),
                           !.updates = @ + 1]
    /\ pc' = "for"
    /\ UNCHANGED <<chatVars, chatio, gen_text, nsnaps, outputs, output_text,
                   pre, now, stdout, ret, exc>>

\* The stream is exhausted: the loop ends and the with block stops the Live
\* region, which leaves its last render on the console.
rich_stream_output_stop ==
    /\ chatio = "RichChatIO"
    /\ pc = "for"
    /\ live' = [live EXCEPT !.started = FALSE]
    /\ pc' = "after"
    /\ UNCHANGED <<chatVars, chatio, gen_text, nsnaps, outputs, output_text,
                   pre, now, stdout, ret, exc, text>>

\* self._console.print(); return text.  With no truthy snapshot the local
\* text is unbound and the return raises UnboundLocalError.
rich_stream_output_return ==
    /\ chatio = "RichChatIO"
    /\ pc = "after"
    /\ stdout' = Write(stdout, <<>>, <<NL>>)
    /\ IF text = None
       THEN /\ exc' = Some([type |-> "UnboundLocalError", at |-> pc])
            /\ pc' = "raised"
            /\ ret' = ret
       ELSE /\ ret' = Some(text[1])
            /\ pc' = "done"
            /\ exc' = exc
    /\ UNCHANGED <<chatVars, richVars, chatio, gen_text, nsnaps, outputs,
                   output_text, pre, now>>

\* Control points inside a RichChatIO.stream_output call.
InRichCall == {"with", "for", "body", "after"}

\* The operator presses Ctrl-C during RichChatIO.stream_output: the
\* KeyboardInterrupt leaves the `with Live(...)` block, whose exit stops the
\* Live region, and unwinds the call and chat_loop.
rich_KeyboardInterrupt ==
    /\ chatio = "RichChatIO"
    /\ pc \in InRichCall
    /\ exc' = Some([type |-> "KeyboardInterrupt", at |-> pc])
    /\ live' = [live EXCEPT !.started = FALSE]
    /\ pc' = "interrupted"
    /\ UNCHANGED <<chatVars, chatio, gen_text, nsnaps, outputs,
                   output_text, pre, now, stdout, ret, text>>

NextRich ==
    \/ rich_stream_output_enter
    \/ rich_stream_output_next
    \/ rich_stream_output_next_falsy
    \/ rich_stream_output_body
    \/ rich_stream_output_stop
    \/ rich_stream_output_return
    \/ rich_KeyboardInterrupt
    \/ main_except

SpecRich == InitRich /\ [][NextRich]_vars

\* ------------------------------------------ RichChatIO.stream_output: claims

\* The lines of the raw text the Live region currently shows.
RawLines == SplitLines(text[1])

\* The lines of the markdown source the Live region currently shows (every
\* raw line is followed by a line end, so they pair off with RawLines).
ShownLines == SplitLines(live.markdown[1])

IsMarker(i) == StartsWithFence(RawLines[i])

\* Line i is a code line of a closed fenced block: an odd number of marker
\* lines precede it, it is no marker itself, and a marker line follows.
IsInterior(i) ==
    /\ ~IsMarker(i)
    /\ Cardinality({j \in 1..(i - 1) : IsMarker(j)}) % 2 = 1
    /\ \E j \in (i + 1)..Len(RawLines) : IsMarker(j)

\* C9 as stated: the (non-empty) interior code lines of a fenced block reach
\* the renderer as they are, without an injected two-space suffix.
C9_InteriorLinesUnsuffixed ==
    (live.markdown # None) =>
        \A i \in 1..Len(RawLines) :
            (IsInterior(i) /\ RawLines[i] # <<>>) =>
                ShownLines[i] = RawLines[i]

\* C9, amended: of a fenced block it is the marker lines, opening and
\* closing, that reach the renderer without an injected suffix; the interior
\* code lines get the two-space suffix like every other non-marker line.
C9_FenceMarkersUnsuffixed ==
    (live.markdown # None) =>
        /\ Len(ShownLines) = Len(RawLines)
        /\ \A i \in 1..Len(RawLines) :
              /\ IsMarker(i) => ShownLines[i] = RawLines[i]
              /\ IsInterior(i) => ShownLines[i] = RawLines[i] \o <<SP, SP>>

\* The Live region shows a fenced block: marker line, code line, marker line.
C9_Witness ==
    /\ live.markdown # None
    /\ RawLines = <<FENCE, <<"a">>, FENCE>>

\* C11: a RichChatIO.stream_output call that returns returns the raw text of
\* the last snapshot, as the engine produced it; by then the Live region is
\* stopped and the one thing written after it is a blank line.
C11_RichReturnsRawText ==
    (chatio = "RichChatIO" /\ pc = "done") =>
        /\ ret = Some(gen_text)
        /\ ~live.started
        /\ stdout = <<NL>>

\* A returned answer of several lines whose rendered markdown source differs
\* from it.
C11_Witness ==
    /\ chatio = "RichChatIO"
    /\ pc = "done"
    /\ Len(SplitLines(gen_text)) >= 2
    /\ live.markdown # ret

\* A line without its trailing blanks.
Bare(ln) == RStrip(ln)

\* Two markdown sources have the same line structure: as many lines, the
\* same lines up to trailing blanks, the same lines starting with the fence
\* marker.
SameLineStructure(m1, m2) ==
    LET l1 == SplitLines(m1)
        l2 == SplitLines(m2)
    IN  /\ Len(l1) = Len(l2)
        /\ \A i \in 1..Len(l1) :
              /\ Bare(l1[i]) = Bare(l2[i])
              /\ StartsWithFence(l1[i]) <=> StartsWithFence(l2[i])

\* C12: whatever was drawn before, the markdown source in the Live region is
\* the transformation of the current snapshot's raw text alone; and the
\* transformation applied to its own result keeps the line structure.
C12_TransformIdempotent ==
    (live.markdown # None) =>
        /\ live.markdown = Some(MarkdownSource(text[1]))
        /\ SameLineStructure(MarkdownSource(MarkdownSource(text[1])),
                             MarkdownSource(text[1]))

\* The third redraw of a stream, of a text with a marker line and an ordinary
\* line.
C12_Witness ==
    /\ live.markdown # None
    /\ nsnaps = 3
    /\ pc = "for"
    /\ \E i, j \in 1..Len(SplitLines(text[1])) :
          /\ StartsWithFence(SplitLines(text[1])[i])
          /\ SplitLines(text[1])[j] = <<"a">>

\* ------------------------------------- plain stream_output: the step rule

\* What one step of a plain stream_output call may do to the committed count
\* pre and to the sink.
DifferStep ==
    /\ pre' >= pre
    /\ IsPrefix(stdout, stdout')
    /\ (pc = "pre0" /\ pc' = "for") => pre' = 0
    /\ (pc = "if" /\ pc' # "interrupted") =>
          LET tokens == output_text[1]
              N == Len(tokens)
          IN  IF N - 1 > pre
              THEN /\ stdout' = stdout
                                  \o JoinSpace(SubSeq(tokens, pre + 1, N - 1))
                                  \o <<SP>>
                   /\ pc' = "commit"
              ELSE /\ stdout' = stdout
                   /\ pc' = "for"
    /\ (pc = "commit" /\ pc' = "for") => pre' = Len(output_text[1]) - 1
    /\ (pc' = "for" /\ output_text' # None) =>
          /\ pre' = Len(output_text'[1]) - 1
          /\ stdout' = Emitted(output_text'[1], pre')

\* C13 (step rule): pre starts at 0 and never decreases; for a snapshot of N
\* tokens a chunk is written exactly when N-1 > pre, it is the tokens
\* [pre, N-1) and pre then becomes N-1; what is on the sink is never rewritten;
\* and back at the loop head the sink holds the first N-1 tokens of the
\* snapshot just processed, one token behind it.
C13_StepRule == [][DifferStep]_vars

\* The second one-token chunk of a stream is on the sink, after its third
\* snapshot (as for "Hello", "Hello there", "Hello there friend").
C13_Witness ==
    /\ pc = "commit"
    /\ nsnaps = 3
    /\ pre = 1
    /\ now = 2
    /\ stdout = <<"a", SP, "b", SP>>

\* ------------------------------------ plain stream_output: single snapshot

\* Index of the last space of s, 0 when s has none.
LastSpace(s) ==
    LET at == {i \in 1..Len(s) : s[i] = SP}
    IN  IF at = {} THEN 0 ELSE CHOOSE i \in at : \A j \in at : j <= i

\* C14 as stated (single snapshot): when the stream closes after its only
\* snapshot, nothing has been written to the sink yet.
C14_NothingUntilClose ==
    (nsnaps = 1 /\ pc = "close") => stdout = <<>>

\* C14 as the code has it: when the stream closes after its only snapshot the
\* sink already holds the stripped text up to and including its last space
\* (all tokens but the last; nothing only when the text has no inner space),
\* and the close adds the rest and a newline, so that the sink is then the
\* stripped text followed by a newline.
C14_SingleSnapshot ==
    LET t == Strip(LastText)
    IN  /\ (nsnaps = 1 /\ pc = "close") => stdout = SubSeq(t, 1, LastSpace(t))
        /\ (nsnaps = 1 /\ pc \in {"return", "done"}) => stdout = t \o <<NL>>

\* A stream whose only snapshot is "a b" has been rendered to the end.
C14_Witness ==
    /\ nsnaps = 1
    /\ pc = "done"
    /\ LastText = <<"a", SP, "b">>
    /\ stdout = <<"a", SP, "b", NL>>

\* ---------------------------------------- plain stream_output: tokenization

\* The token list on hand is that of the last snapshot pulled.
TokensCurrent ==
    /\ output_text # None
    /\ pc \in {"if", "commit", "for", "close", "return", "done"}

\* Number of space characters of s.
Spaces(s) == Cardinality({i \in 1..Len(s) : s[i] = SP})

\* C15 as stated (whitespace split): the token list of each snapshot is its
\* whitespace-split word list, and the returned text is those words.
C15_WhitespaceSplit ==
    /\ (TokensCurrent /\ Words(LastText) # <<>>) =>
          output_text[1] = Words(LastText)
    /\ (pc = "done" /\ Words(LastText) # <<>>) =>
          ret = Some(JoinSpace(Words(LastText)))

\* C15 as the code has it: the token list is the stripped snapshot text cut at
\* every single space and nowhere else. No token holds a space, the tokens
\* joined by single spaces give back the stripped text (so tabs and newlines
\* stay inside tokens and two adjacent spaces enclose an empty token), N is
\* one more than the number of spaces of the stripped text, and the returned
\* text is the stripped text itself.
C15_SingleSpaceSplit ==
    LET t == Strip(LastText)
    IN  /\ TokensCurrent =>
              LET tokens == output_text[1]
              IN  /\ JoinSpace(tokens) = t
                  /\ \A i \in 1..Len(tokens) : Spaces(tokens[i]) = 0
                  /\ Len(tokens) = Spaces(t) + 1
        /\ (pc \in {"if", "commit"}) => now = Spaces(t)
        /\ (pc = "done") => ret = Some(t)

\* A snapshot with a newline and two adjacent spaces between two words has
\* been tokenized: the newline stays inside a token, the two spaces enclose
\* an empty one.
C15_Witness ==
    /\ pc = "if"
    /\ LastText = <<"a", NL, SP, SP, "b">>
    /\ output_text = Some(<< <<"a", NL>>, <<>>, <<"b">> >>)
    /\ now = 2

\* ------------------------------------------- stream_output of every class

\* main() builds a ChatIO of one of the three classes and chat_loop streams
\* the reply through its stream_output.
InitRender == Init \/ InitRich

NextRender == Next \/ NextRich

SpecRender == InitRender /\ [][NextRender]_vars

\* C16 as stated (no snapshot skipped): back at the loop head every item
\* pulled so far has been processed, by a differ step for the plain classes
\* and by a Live region update for RichChatIO.
C16_NoSnapshotSkipped ==
    (pc = "for") =>
        IF chatio = "RichChatIO"
        THEN live.updates = nsnaps
        ELSE nsnaps > 0 => output_text = Some(SplitSpace(Strip(LastText)))

\* What one step of any stream_output may do with the items of the stream.
ConsumeStep ==
    /\ (pc' \in {"split", "body"}) => (pc = "for" /\ nsnaps' = nsnaps + 1)
    /\ (pc = "split" /\ pc' # "interrupted") =>
          /\ output_text' = Some(SplitSpace(Strip(outputs[1].text)))
          /\ pc' = "if"
    /\ (pc = "if" /\ pc' # "interrupted") => pc' \in {"commit", "for"}
    /\ (chatio \in PlainClasses /\ pc' = "for" /\ outputs' # None) =>
          /\ output_text' # None
          /\ JoinSpace(output_text'[1]) = Strip(outputs'[1].text)
    /\ (pc = "body" /\ pc' # "interrupted") =>
          /\ pc' = "for"
          /\ IF outputs[1] = EmptyDict
             THEN live' = live /\ text' = text
             ELSE /\ live'.updates = live.updates + 1
                  /\ live'.markdown = Some(MarkdownSource(outputs[1].text))
                  /\ text' = Some(outputs[1].text)

\* C16 as the code has it: items are pulled one at a time, only at the loop
\* head, and each item that carries a text, an empty text included, is
\* processed before the next is pulled (tokenized and diffed by the plain
\* classes, shown by one Live region update by RichChatIO); RichChatIO skips
\* an item that is itself empty, leaving text and Live region as they were.
C16_TextSnapshotsProcessed == [][ConsumeStep]_vars

\* RichChatIO is back at the loop head after three items, one of which was
\* empty and skipped and the last of which had an empty text and was shown.
C16_Witness ==
    /\ chatio = "RichChatIO"
    /\ pc = "for"
    /\ nsnaps = 3
    /\ live.updates = 2
    /\ outputs = Some([text |-> <<>>])

\* -------------------------- RichChatIO.stream_output: the line transformation

\* The line starts with three backticks.
HasMarkerPrefix(ln) == Len(ln) >= 3 /\ \A k \in 1..3 : ln[k] = BACKTICK

\* What the transformation is to put after a line.
Terminator(ln) == IF HasMarkerPrefix(ln) THEN <<NL>> ELSE <<SP, SP, NL>>

\* The concatenation of a sequence of strings.
RECURSIVE Flatten(_)
Flatten(ss) == IF ss = <<>> THEN <<>> ELSE Head(ss) \o Flatten(Tail(ss))

\* lns are the lines of raw, in order and unaltered: none holds a line end,
\* and put together again with line ends they are raw, up to one final line
\* end of raw.
AreLinesOf(lns, raw) ==
    /\ \A i \in 1..Len(lns) : \A k \in 1..Len(lns[i]) : lns[i][k] # NL
    /\ \/ raw = JoinWith(lns, NL)
       \/ raw = JoinWith(lns, NL) \o <<NL>>

\* C17 (markdown line transformation): the markdown source in the Live region
\* is the concatenation, over the lines of the raw text in order, of the line
\* followed by two spaces and a newline when it does not start with the
\* triple-backtick marker and by a bare newline when it does.
C17_LineTransformation ==
    (chatio = "RichChatIO" /\ live.markdown # None) =>
        /\ AreLinesOf(RawLines, text[1])
        /\ live.markdown[1] =
              Flatten([i \in 1..Len(RawLines) |->
                          RawLines[i] \o Terminator(RawLines[i])])

\* The Live region shows a text with a marker line and a line that holds the
\* marker after its first character.
C17_Witness ==
    /\ chatio = "RichChatIO"
    /\ text = Some(FENCE \o <<NL, "a">> \o FENCE)
    /\ live.markdown = Some(FENCE \o <<NL, "a">> \o FENCE \o <<SP, SP, NL>>)

\* ---------------------------------- stream_output calls on one ChatIO object

\* C18 (differ state is per stream): what a stream_output call writes and
\* returns is a function of the stream it is passed alone: the stripped text
\* of the last snapshot, followed by a newline on the sink (for an empty
\* stream nothing is written and nothing returned); so two calls on the same
\* object that are passed the same stream write and return the same, whatever
\* calls came before them.
C18_DifferStatePerStream ==
    /\ \A i \in 1..Len(streamed) :
          LET c == streamed[i]
          IN  IF c.stream = <<>>
              THEN c.out = <<>> /\ c.ret = None
              ELSE LET t == Strip(c.stream[Len(c.stream)].text)
                   IN  c.out = t \o <<NL>> /\ c.ret = Some(t)
    /\ \A i, j \in 1..Len(streamed) :
          streamed[i].stream = streamed[j].stream =>
              /\ streamed[i].out = streamed[j].out
              /\ streamed[i].ret = streamed[j].ret

\* Three stream_output calls on one object: the first and the third are
\* passed the same two-snapshot stream, the second a one-snapshot stream.
C18_Witness ==
    /\ Len(streamed) = 3
    /\ Len(streamed[1].stream) = 2
    /\ Len(streamed[2].stream) = 1
    /\ streamed[3].stream = streamed[1].stream
    /\ streamed[3].out = <<"a", SP, "b", NL>>

OtherClass(c) ==
    IF c = "SimpleChatIO" THEN "FileInputChatIO" ELSE "SimpleChatIO"

\* C20 (the two plain variants render alike): at every statement a
\* stream_output call of one plain class reaches, on any stream, the other
\* class's copy of the statement computes the same from the same locals: the
\* same token list, the same decision to write, the same chunk, the same
\* closing chunk and the same returned string.  Step by step, then, the two
\* calls write the same chunks to the sink and return the same string.
C20_PlainRenderersAgree ==
    (chatio \in PlainClasses) =>
        LET o == OtherClass(chatio)
        IN  /\ (pc = "split") =>
                  TokenizeOf(o, LastText) = TokenizeOf(chatio, LastText)
            /\ (pc = "if") =>
                  /\ ShouldEmitOf(o, now, pre) = ShouldEmitOf(chatio, now, pre)
                  /\ ChunkOf(o, output_text[1], pre, now)
                        = ChunkOf(chatio, output_text[1], pre, now)
            /\ (pc = "close" /\ output_text # None) =>
                  ClosingChunkOf(o, output_text[1], pre)
                      = ClosingChunkOf(chatio, output_text[1], pre)
            /\ (pc \in {"return", "done"}) =>
                  FinalTextOf(o, output_text[1])
                      = FinalTextOf(chatio, output_text[1])
            /\ (pc = "done") => ret = Some(FinalTextOf(o, output_text[1]))

\* A FileInputChatIO.stream_output call has returned after two snapshots, the
\* last with whitespace to strip.
C20_Witness ==
    /\ chatio = "FileInputChatIO"
    /\ pc = "done"
    /\ nsnaps = 2
    /\ LastText = <<"a", SP, "b", NL>>
    /\ ret = Some(<<"a", SP, "b">>)

====
